---- MODULE Spec2Model ----
(***************************************************************************)
(* Movie Watchlist API (src/index.js): the in-memory user table with each  *)
(* user's movie collection, the login route, the authenticateToken guard   *)
(* and the /movies routes, one action per route.  A JavaScript value is    *)
(* written as its JSON text ("\"Inception\"", "true", "null"), and an      *)
(* absent property as "undefined".                                         *)
(***************************************************************************)
EXTENDS Integers, Sequences, FiniteSets, TLC

VARIABLES users, now, issued, req, res

vars == <<users, now, issued, req, res>>

(***************************************************************************)
(* Bounds of the model.                                                    *)
(***************************************************************************)
\* largest number of movies kept over all collections together
MaxMovies == 2
\* largest number of logins whose token the clients keep
MaxTokens == 2

(***************************************************************************)
(* JavaScript values.                                                      *)
(***************************************************************************)
Undefined == "undefined"

\* !v of the values used here
Falsy(v) == v \in {"undefined", "null", "false", "0", "\"\""}

\* !!v
ToBoolean(v) == IF Falsy(v) THEN "false" ELSE "true"

(***************************************************************************)
(* jsonwebtoken: a token is its payload and the key it was signed with;    *)
(* any other word of a header is a text.                                   *)
(***************************************************************************)
SECRET_KEY == "fallback_secret_key"
MsPerSecond == 1000
\* expiresIn: '24h', in seconds
ExpiresIn == 86400

Word(s) == [kind |-> "text", text |-> s, id |-> 0, username |-> Undefined,
            iat |-> 0, exp |-> 0, key |-> ""]
UndefinedWord == [kind |-> "undefined", text |-> "", id |-> 0, username |-> Undefined,
                  iat |-> 0, exp |-> 0, key |-> ""]

\* jwt.sign({id, username}, key, {expiresIn: '24h'}) at instant t
JwtSign(id, username, key, t) ==
  [kind |-> "jwt", text |-> "", id |-> id, username |-> username,
   iat |-> t \div MsPerSecond, exp |-> (t \div MsPerSecond) + ExpiresIn, key |-> key]

\* jwt.verify that lets a token through during the second it expires at
JwtVerifyErrLate(token, key, t) ==
  \/ token.kind # "jwt"
  \/ token.key # key
  \/ (t \div MsPerSecond) > token.exp

\* jwt.verify(token, key, callback) at instant t: the err of the callback
JwtVerifyErr(token, key, t) ==
  \/ token.kind # "jwt"
  \/ token.key # key
  \/ (t \div MsPerSecond) >= token.exp

(***************************************************************************)
(* Responses and requests.                                                 *)
(***************************************************************************)
\* req.body: present is FALSE when the request has no body, json is FALSE when
\* its body is not JSON text; a property the body lacks is undefined
NoBody == [present |-> FALSE, json |-> TRUE, username |-> Undefined, password |-> Undefined,
           id |-> Undefined, movietitle |-> Undefined, language |-> Undefined,
           watched |-> Undefined]
NotJson == [NoBody EXCEPT !.present = TRUE, !.json = FALSE]
NoHeader == [present |-> FALSE, parts |-> <<>>]
Header(parts) == [present |-> TRUE, parts |-> parts]

Response(status, kind, message, token, list) ==
  [status |-> status, kind |-> kind, message |-> message, token |-> token, movies |-> list]
Message(status, message) == Response(status, "message", message, UndefinedWord, <<>>)
\* the page Express's own error handler answers with
ErrorPage(status) == Response(status, "html", "", UndefinedWord, <<>>)

\* route, headers.authorization, params.id, query.status, body; user is the
\* id of req.user, 0 while the guard has not called next(); time is Date.now()
\* when the request is handled
Request(route, header, id, status, body, user, time) ==
  [route |-> route, header |-> header, id |-> id, status |-> status, body |-> body,
   user |-> user, time |-> time]

\* array.find(pred), given the indices pred holds at: the first of them,
\* 0 for undefined
Find(matches) ==
  IF matches = {} THEN 0 ELSE CHOOSE i \in matches : \A j \in matches : i <= j

InitAt(t) ==
  /\ users = << [id |-> 1, username |-> "\"Ashwanth\"", password |-> "\"kok123\"", movies |-> <<>>],
                [id |-> 2, username |-> "\"alice\"", password |-> "\"123\"", movies |-> <<>>] >>
  /\ now = t
  /\ issued = {}
  /\ req = Request("none", NoHeader, <<>>, Undefined, NoBody, 0, t)
  /\ res = Response(0, "none", "", UndefinedWord, <<>>)

(***************************************************************************)
(* POST /login                                                             *)
(***************************************************************************)
Credentials(username, password) ==
  [NoBody EXCEPT !.present = TRUE, !.username = username, !.password = password]

LoginResponse(body, t) ==
  LET username == IF body.present THEN body.username ELSE Undefined
      password == IF body.present THEN body.password ELSE Undefined
      i == Find({k \in 1..Len(users) :
                   users[k].username = username /\ users[k].password = password})
  IN  IF Falsy(username) \/ Falsy(password)
        THEN Message(400, "username and password required")
      ELSE IF i = 0
        THEN Message(401, "Invalid credentials")
      ELSE Response(200, "token", "",
                    JwtSign(users[i].id, users[i].username, SECRET_KEY, t), <<>>)

\* issued remembers each token handed out with the instant of the login
PostLogin(in) ==
  \E body \in in.logins :
    LET r == LoginResponse(body, now) IN
      /\ r.kind = "token" =>
           Cardinality(issued \cup {[token |-> r.token, at |-> now]}) <= MaxTokens
      /\ res' = r
      /\ req' = Request("POST /login", NoHeader, <<>>, Undefined, body, 0, now)
      /\ issued' = IF r.kind = "token" THEN issued \cup {[token |-> r.token, at |-> now]}
                   ELSE issued
      /\ UNCHANGED <<users, now>>

(***************************************************************************)
(* authenticateToken                                                       *)
(***************************************************************************)
\* authHeader && authHeader.split(' ')[1]
HeaderToken(header) ==
  IF ~header.present THEN UndefinedWord
  ELSE IF header.parts = <<>> THEN Word("")
  ELSE IF Len(header.parts) < 2 THEN UndefinedWord
  ELSE header.parts[2]

FalsyWord(w) == w.kind = "undefined" \/ (w.kind = "text" /\ w.text = "")

\* the guard without its test for a missing token
authenticateTokenUnchecked(header, t) ==
  LET token == HeaderToken(header)
      i == Find({k \in 1..Len(users) : users[k].id = token.id})
  IN  IF JwtVerifyErr(token, SECRET_KEY, t)
        THEN [next |-> FALSE, user |-> 0, res |-> Message(403, "Invalid or expired token")]
      ELSE IF i = 0
        THEN [next |-> FALSE, user |-> 0, res |-> Message(401, "User not found")]
      ELSE [next |-> TRUE, user |-> i, res |-> Message(0, "")]

\* the guard taking the first user of the table whatever the token's id
authenticateTokenFirstUser(header, t) ==
  LET token == HeaderToken(header)
      i == Find({k \in 1..Len(users) : TRUE})
  IN  IF FalsyWord(token)
        THEN [next |-> FALSE, user |-> 0, res |-> Message(401, "Missing token")]
      ELSE IF JwtVerifyErr(token, SECRET_KEY, t)
        THEN [next |-> FALSE, user |-> 0, res |-> Message(403, "Invalid or expired token")]
      ELSE IF i = 0
        THEN [next |-> FALSE, user |-> 0, res |-> Message(401, "User not found")]
      ELSE [next |-> TRUE, user |-> i, res |-> Message(0, "")]

\* the guard looking the user up before it verifies the token
authenticateTokenLookupFirst(header, t) ==
  LET token == HeaderToken(header)
      i == Find({k \in 1..Len(users) : users[k].id = token.id})
  IN  IF FalsyWord(token)
        THEN [next |-> FALSE, user |-> 0, res |-> Message(401, "Missing token")]
      ELSE IF i = 0
        THEN [next |-> FALSE, user |-> 0, res |-> Message(401, "User not found")]
      ELSE IF JwtVerifyErr(token, SECRET_KEY, t)
        THEN [next |-> FALSE, user |-> 0, res |-> Message(403, "Invalid or expired token")]
      ELSE [next |-> TRUE, user |-> i, res |-> Message(0, "")]

\* the outcome of the guard: next is TRUE when next() is called, and then
\* user is the index of req.user in users; otherwise res is the response
authenticateToken(header, t) ==
  LET token == HeaderToken(header)
      i == Find({k \in 1..Len(users) : users[k].id = token.id})
  IN  IF FalsyWord(token)
        THEN [next |-> FALSE, user |-> 0, res |-> Message(401, "Missing token")]
      ELSE IF JwtVerifyErr(token, SECRET_KEY, t)
        THEN [next |-> FALSE, user |-> 0, res |-> Message(403, "Invalid or expired token")]
      ELSE IF i = 0
        THEN [next |-> FALSE, user |-> 0, res |-> Message(401, "User not found")]
      ELSE [next |-> TRUE, user |-> i, res |-> Message(0, "")]

\* the Authorization headers a client sends: those of the input set, and
\* "Bearer <token>" for each token it was issued
Bearer(token) == Header(<<Word("Bearer"), token>>)
Headers(in) == in.headers \cup {Bearer(i.token) : i \in issued}

(***************************************************************************)
(* Numbers and route parameters.  A route parameter is the string of its   *)
(* characters; Number() reads a string of decimal digits and is NaN on a   *)
(* string holding a letter.                                                *)
(***************************************************************************)
Digits == <<"0", "1", "2", "3", "4", "5", "6", "7", "8", "9">>
DigitChars == {Digits[i] : i \in 1..10}
DigitValue(c) == (CHOOSE i \in 1..10 : Digits[i] = c) - 1

NaN == [nan |-> TRUE, n |-> 0]
Num(n) == [nan |-> FALSE, n |-> n]
\* a === b of two numbers
StrictEq(a, b) == ~a.nan /\ ~b.nan /\ a.n = b.n

RECURSIVE DigitsValue(_, _)
DigitsValue(chars, acc) ==
  IF chars = <<>> THEN acc
  ELSE DigitsValue(Tail(chars), acc * 10 + DigitValue(Head(chars)))

\* Number(req.params.id)
NumberOfString(chars) ==
  IF \A i \in 1..Len(chars) : chars[i] \in DigitChars
    THEN Num(DigitsValue(chars, 0))
    ELSE NaN

\* String(n) of a non-negative integer, as a client writes an id in a path
RECURSIVE ToChars(_)
ToChars(n) ==
  IF n < 10 THEN <<Digits[n + 1]>>
  ELSE Append(ToChars(n \div 10), Digits[(n % 10) + 1])

(***************************************************************************)
(* generateId                                                              *)
(***************************************************************************)
\* Date.now() + Math.floor(Math.random() * 1000), with t the clock and r the draw
generateId(t, r) == t + r

(***************************************************************************)
(* The /movies routes: each handler as a function of the collection of     *)
(* req.user and the request, giving the response and the new collection.   *)
(***************************************************************************)
Outcome(response, movies) == [res |-> response, movies |-> movies]
MovieResponse(status, movie) == Response(status, "movie", "", UndefinedWord, <<movie>>)

\* const { movietitle, language, watched } = req.body || {}
Field(body, name) == IF body.present THEN body[name] ELSE Undefined

\* (req.user.movies || []).find(m => Number(m.id) === id)
FindMovie(movies, id) ==
  Find({k \in 1..Len(movies) : StrictEq(Num(movies[k].id), id)})

\* the filter without its branch for 'unwatched'
ListMoviesWatchedOnly(movies, status) ==
  LET Watched(m) == m.watched = "true"
  IN  IF status = "watched" THEN SelectSeq(movies, Watched) ELSE movies

\* GET /movies
ListMovies(movies, status) ==
  LET Watched(m) == m.watched = "true"
      Unwatched(m) == m.watched = "false"
  IN  IF status = "watched" THEN SelectSeq(movies, Watched)
      ELSE IF status = "unwatched" THEN SelectSeq(movies, Unwatched)
      ELSE movies

GetMoviesHandler(movies, status) ==
  Outcome(Response(200, "list", "", UndefinedWord, ListMovies(movies, status)), movies)

\* POST that puts the new movie first (unshift for push)
PostMoviesHandlerFront(movies, body, newId) ==
  LET movietitle == Field(body, "movietitle")
      language == Field(body, "language")
      watched == Field(body, "watched")
      newMovie == [id |-> newId, movietitle |-> movietitle, language |-> language,
                   watched |-> IF watched = Undefined THEN "false" ELSE ToBoolean(watched)]
  IN  IF Falsy(movietitle) \/ Falsy(language)
        THEN Outcome(Message(400, "movietitle and language are required"), movies)
        ELSE Outcome(MovieResponse(201, newMovie), <<newMovie>> \o movies)

\* POST that tests its fields against undefined only, as PUT does
PostMoviesHandlerLax(movies, body, newId) ==
  LET movietitle == Field(body, "movietitle")
      language == Field(body, "language")
      watched == Field(body, "watched")
      newMovie == [id |-> newId, movietitle |-> movietitle, language |-> language,
                   watched |-> IF watched = Undefined THEN "false" ELSE ToBoolean(watched)]
  IN  IF movietitle = Undefined \/ language = Undefined
        THEN Outcome(Message(400, "movietitle and language are required"), movies)
        ELSE Outcome(MovieResponse(201, newMovie), Append(movies, newMovie))

\* POST that stores watched as the body gave it
PostMoviesHandlerRaw(movies, body, newId) ==
  LET movietitle == Field(body, "movietitle")
      language == Field(body, "language")
      watched == Field(body, "watched")
      newMovie == [id |-> newId, movietitle |-> movietitle, language |-> language,
                   watched |-> IF watched = Undefined THEN "false" ELSE watched]
  IN  IF Falsy(movietitle) \/ Falsy(language)
        THEN Outcome(Message(400, "movietitle and language are required"), movies)
        ELSE Outcome(MovieResponse(201, newMovie), Append(movies, newMovie))

\* POST /movies, with newId the value of generateId()
PostMoviesHandler(movies, body, newId) ==
  LET movietitle == Field(body, "movietitle")
      language == Field(body, "language")
      watched == Field(body, "watched")
      newMovie == [id |-> newId, movietitle |-> movietitle, language |-> language,
                   watched |-> IF watched = Undefined THEN "false" ELSE ToBoolean(watched)]
  IN  IF Falsy(movietitle) \/ Falsy(language)
        THEN Outcome(Message(400, "movietitle and language are required"), movies)
        ELSE Outcome(MovieResponse(201, newMovie), Append(movies, newMovie))

\* GET /movies/:id
GetMovieHandler(movies, param) ==
  LET i == FindMovie(movies, NumberOfString(param))
  IN  IF i = 0 THEN Outcome(Message(404, "Movie not found"), movies)
      ELSE Outcome(MovieResponse(200, movies[i]), movies)

\* PUT that does not ask for watched
PutMovieHandlerNoWatched(movies, param, body) ==
  LET i == FindMovie(movies, NumberOfString(param))
      movietitle == Field(body, "movietitle")
      language == Field(body, "language")
      watched == Field(body, "watched")
      movie == [movies[i] EXCEPT !.movietitle = movietitle, !.language = language,
                                 !.watched = ToBoolean(watched)]
  IN  IF i = 0 THEN Outcome(Message(404, "Movie not found"), movies)
      ELSE IF movietitle = Undefined \/ language = Undefined
        THEN Outcome(Message(400, "movietitle, language and watched are required for full update"),
                     movies)
      ELSE Outcome(MovieResponse(200, movie), [movies EXCEPT ![i] = movie])

\* PUT that assigns the fields before it tests them
PutMovieHandlerAssignFirst(movies, param, body) ==
  LET i == FindMovie(movies, NumberOfString(param))
      movietitle == Field(body, "movietitle")
      language == Field(body, "language")
      watched == Field(body, "watched")
      movie == [movies[i] EXCEPT !.movietitle = movietitle, !.language = language,
                                 !.watched = ToBoolean(watched)]
  IN  IF i = 0 THEN Outcome(Message(404, "Movie not found"), movies)
      ELSE IF movietitle = Undefined \/ language = Undefined \/ watched = Undefined
        THEN Outcome(Message(400, "movietitle, language and watched are required for full update"),
                     [movies EXCEPT ![i] = movie])
      ELSE Outcome(MovieResponse(200, movie), [movies EXCEPT ![i] = movie])

\* PUT that takes the movie out and pushes the new one
PutMovieHandlerReinsert(movies, param, body) ==
  LET i == FindMovie(movies, NumberOfString(param))
      movietitle == Field(body, "movietitle")
      language == Field(body, "language")
      watched == Field(body, "watched")
      movie == [movies[i] EXCEPT !.movietitle = movietitle, !.language = language,
                                 !.watched = ToBoolean(watched)]
      pushed == [k \in 1..Len(movies) |->
                   IF k < i THEN movies[k] ELSE IF k < Len(movies) THEN movies[k + 1] ELSE movie]
  IN  IF i = 0 THEN Outcome(Message(404, "Movie not found"), movies)
      ELSE IF movietitle = Undefined \/ language = Undefined \/ watched = Undefined
        THEN Outcome(Message(400, "movietitle, language and watched are required for full update"),
                     movies)
      ELSE Outcome(MovieResponse(200, movie), pushed)

\* PUT /movies/:id
PutMovieHandler(movies, param, body) ==
  LET i == FindMovie(movies, NumberOfString(param))
      movietitle == Field(body, "movietitle")
      language == Field(body, "language")
      watched == Field(body, "watched")
      movie == [movies[i] EXCEPT !.movietitle = movietitle, !.language = language,
                                 !.watched = ToBoolean(watched)]
  IN  IF i = 0 THEN Outcome(Message(404, "Movie not found"), movies)
      ELSE IF movietitle = Undefined \/ language = Undefined \/ watched = Undefined
        THEN Outcome(Message(400, "movietitle, language and watched are required for full update"),
                     movies)
      ELSE Outcome(MovieResponse(200, movie), [movies EXCEPT ![i] = movie])

\* PATCH that assigns watched whether or not the body has it
PatchMovieHandlerAlways(movies, param, body) ==
  LET i == FindMovie(movies, NumberOfString(param))
      movietitle == Field(body, "movietitle")
      language == Field(body, "language")
      watched == Field(body, "watched")
      movie == [movies[i] EXCEPT
                  !.movietitle = IF movietitle # Undefined THEN movietitle ELSE @,
                  !.language = IF language # Undefined THEN language ELSE @,
                  !.watched = ToBoolean(watched)]
  IN  IF i = 0 THEN Outcome(Message(404, "Movie not found"), movies)
      ELSE Outcome(MovieResponse(200, movie), [movies EXCEPT ![i] = movie])

\* PATCH that assigns movietitle and language whether or not the body has them
PatchMovieHandlerOverwrite(movies, param, body) ==
  LET i == FindMovie(movies, NumberOfString(param))
      movietitle == Field(body, "movietitle")
      language == Field(body, "language")
      watched == Field(body, "watched")
      movie == [movies[i] EXCEPT
                  !.movietitle = movietitle,
                  !.language = language,
                  !.watched = IF watched # Undefined THEN ToBoolean(watched) ELSE @]
  IN  IF i = 0 THEN Outcome(Message(404, "Movie not found"), movies)
      ELSE Outcome(MovieResponse(200, movie), [movies EXCEPT ![i] = movie])

\* PATCH /movies/:id
PatchMovieHandler(movies, param, body) ==
  LET i == FindMovie(movies, NumberOfString(param))
      movietitle == Field(body, "movietitle")
      language == Field(body, "language")
      watched == Field(body, "watched")
      movie == [movies[i] EXCEPT
                  !.movietitle = IF movietitle # Undefined THEN movietitle ELSE @,
                  !.language = IF language # Undefined THEN language ELSE @,
                  !.watched = IF watched # Undefined THEN ToBoolean(watched) ELSE @]
  IN  IF i = 0 THEN Outcome(Message(404, "Movie not found"), movies)
      ELSE Outcome(MovieResponse(200, movie), [movies EXCEPT ![i] = movie])

\* DELETE that takes out the first movie with the id only
DeleteMovieHandlerFirst(movies, param) ==
  LET i == FindMovie(movies, NumberOfString(param))
      kept == [k \in 1..(Len(movies) - 1) |-> IF k < i THEN movies[k] ELSE movies[k + 1]]
  IN  IF i = 0 THEN Outcome(Message(404, "Movie not found"), movies)
      ELSE Outcome(Response(204, "empty", "", UndefinedWord, <<>>), kept)

\* DELETE /movies/:id
DeleteMovieHandler(movies, param) ==
  LET id == NumberOfString(param)
      Other(m) == ~StrictEq(Num(m.id), id)
      before == Len(movies)
      kept == SelectSeq(movies, Other)
      after == Len(kept)
  IN  IF before = after THEN Outcome(Message(404, "Movie not found"), kept)
      ELSE Outcome(Response(204, "empty", "", UndefinedWord, <<>>), kept)

(***************************************************************************)
(* The requests.  Each action is one request handled to its end: the guard *)
(* and, when the guard calls next(), the handler.  in is the set of inputs *)
(* the clients draw from.                                                  *)
(***************************************************************************)
MovieBody(t, l, w) ==
  [NoBody EXCEPT !.present = TRUE, !.movietitle = t, !.language = l, !.watched = w]

\* a body that has an id property as well
WithId(body, id) == [body EXCEPT !.id = id]

\* the ids generateId can give, written as route parameters, and a word
AllIds(in) == {generateId(t, r) : t \in in.instants, r \in in.draws}
Params(in) == {ToChars(n) : n \in AllIds(in)} \cup in.words

TotalMovies == Len(users[1].movies) + Len(users[2].movies)

\* the guard answers and the handler is not run
Reject(route, header, param, a) ==
  /\ res' = a.res
  /\ req' = Request(route, header, param, Undefined, NoBody, 0, now)
  /\ UNCHANGED <<users, now, issued>>

\* the handler's outcome o is answered and stored for the user at index i
Serve(route, header, param, status, body, i, o) ==
  /\ Len(o.movies) > Len(users[i].movies) => TotalMovies < MaxMovies
  /\ res' = o.res
  /\ req' = Request(route, header, param, status, body, users[i].id, now)
  /\ users' = [users EXCEPT ![i].movies = o.movies]
  /\ UNCHANGED <<now, issued>>

NoParam == <<>>
AnyParam(in) == CHOOSE p \in Params(in) : TRUE

GetMovies(in) ==
  \E header \in Headers(in) :
    LET a == authenticateToken(header, now) IN
      IF ~a.next THEN Reject("GET /movies", header, NoParam, a)
      ELSE \E status \in in.statuses :
             Serve("GET /movies", header, NoParam, status, NoBody, a.user,
                   GetMoviesHandler(users[a.user].movies, status))

PostMovies(in) ==
  \E header \in Headers(in) :
    LET a == authenticateToken(header, now) IN
      IF ~a.next THEN Reject("POST /movies", header, NoParam, a)
      ELSE \E body \in in.postBodies, r \in in.draws :
             Serve("POST /movies", header, NoParam, Undefined, body, a.user,
                   PostMoviesHandler(users[a.user].movies, body, generateId(now, r)))

GetMovie(in) ==
  \E header \in Headers(in) :
    LET a == authenticateToken(header, now) IN
      IF ~a.next THEN Reject("GET /movies/:id", header, AnyParam(in), a)
      ELSE \E param \in Params(in) :
             Serve("GET /movies/:id", header, param, Undefined, NoBody, a.user,
                   GetMovieHandler(users[a.user].movies, param))

PutMovie(in) ==
  \E header \in Headers(in) :
    LET a == authenticateToken(header, now) IN
      IF ~a.next THEN Reject("PUT /movies/:id", header, AnyParam(in), a)
      ELSE \E param \in Params(in), body \in in.putBodies :
             Serve("PUT /movies/:id", header, param, Undefined, body, a.user,
                   PutMovieHandler(users[a.user].movies, param, body))

PatchMovie(in) ==
  \E header \in Headers(in) :
    LET a == authenticateToken(header, now) IN
      IF ~a.next THEN Reject("PATCH /movies/:id", header, AnyParam(in), a)
      ELSE \E param \in Params(in), body \in in.patchBodies :
             Serve("PATCH /movies/:id", header, param, Undefined, body, a.user,
                   PatchMovieHandler(users[a.user].movies, param, body))

DeleteMovie(in) ==
  \E header \in Headers(in) :
    LET a == authenticateToken(header, now) IN
      IF ~a.next THEN Reject("DELETE /movies/:id", header, AnyParam(in), a)
      ELSE \E param \in Params(in) :
             Serve("DELETE /movies/:id", header, param, Undefined, NoBody, a.user,
                   DeleteMovieHandler(users[a.user].movies, param))

(***************************************************************************)
(* The middleware around the routes.                                       *)
(***************************************************************************)
\* app.use(express.json()) on a body that is not JSON: the parser passes an
\* error of status 400 on, no route and no guard is run, and Express's own
\* error handler answers, the app having none
JsonError(in) ==
  \E path \in in.paths, header \in Headers(in) :
    /\ res' = ErrorPage(400)
    /\ req' = Request("express.json", header, path, Undefined, NotJson, 0, now)
    /\ UNCHANGED <<users, now, issued>>

\* app.use((req, res) => ...) after the routes: a path no route matches
UnknownRoute(in) ==
  \E path \in in.unknown :
    /\ res' = Message(404, "Endpoint not found")
    /\ req' = Request("unknown", NoHeader, path, Undefined, NoBody, 0, now)
    /\ UNCHANGED <<users, now, issued>>

(***************************************************************************)
(* The clock: Date.now() moves to the next instant of the input set.       *)
(***************************************************************************)
Earliest(instants) == CHOOSE t \in instants : \A u \in instants : t <= u

Tick(in) ==
  /\ \E t \in in.instants :
       /\ t > now
       /\ \A u \in in.instants : u > now => t <= u
       /\ now' = t
  /\ UNCHANGED <<users, issued, req, res>>

\* any one request
Requests(in) ==
  \/ PostLogin(in)
  \/ GetMovies(in)
  \/ PostMovies(in)
  \/ GetMovie(in)
  \/ PutMovie(in)
  \/ PatchMovie(in)
  \/ DeleteMovie(in)
  \/ JsonError(in)
  \/ UnknownRoute(in)

Inception == "\"Inception\""
English == "\"English\""
Empty == "\"\""

(***************************************************************************)
(* Spec: the watchlist of one user.  alice logs in and works on her        *)
(* collection, all within one millisecond of the clock.                    *)
(***************************************************************************)
WatchlistInputs ==
  [instants |-> {1999},
   draws |-> {0, 1},
   logins |-> {NoBody, Credentials("\"alice\"", "\"123\""), Credentials("\"alice\"", "\"kok123\"")},
   headers |-> {NoHeader, Bearer(Word("garbage"))},
   statuses |-> {Undefined, "watched", "unwatched", "all"},
   words |-> {<<"a", "b", "c">>},
   paths |-> {<<"/", "m", "o", "v", "i", "e", "s">>},
   unknown |-> {<<"/", "n", "o", "w", "h", "e", "r", "e">>},
   postBodies |-> {NoBody,
                   MovieBody(Inception, English, Undefined),
                   MovieBody(Inception, English, "true"),
                   MovieBody(Inception, English, "null"),
                   MovieBody(Inception, English, "\"no\""),
                   MovieBody(Empty, English, "true"),
                   MovieBody(Inception, Undefined, "true")},
   putBodies |-> {NoBody,
                  MovieBody(Inception, English, Undefined),
                  MovieBody(Inception, English, "true"),
                  WithId(MovieBody(Inception, English, "0"), "7"),
                  MovieBody(Empty, Empty, "null")},
   patchBodies |-> {NoBody,
                    MovieBody(Undefined, Undefined, Undefined),
                    MovieBody(Undefined, Undefined, "true"),
                    MovieBody(Undefined, Undefined, "null"),
                    WithId(MovieBody(Undefined, Undefined, "\"no\""), "7"),
                    MovieBody(Empty, Empty, Undefined)}]

Init == InitAt(Earliest(WatchlistInputs.instants))
Next == Requests(WatchlistInputs)
Spec == Init /\ [][Next]_vars

(***************************************************************************)
(* SpecGuard: the guard over a day.  Ashwanth and alice log in and send    *)
(* requests with and without their tokens while the clock moves past the   *)
(* expiry of the tokens.                                                   *)
(***************************************************************************)
OtherKeyToken == JwtSign(1, "\"Ashwanth\"", "another_key", 1999)
\* a token signed with SECRET_KEY for an id the table of users does not hold
UnknownUserToken == JwtSign(3, "\"mallory\"", SECRET_KEY, 1999)
GuardInputs ==
  [instants |-> {1999, 86400999, 86401000, 86401999},
   draws |-> {0},
   logins |-> {NoBody, Credentials("\"Ashwanth\"", "\"kok123\""), Credentials("\"alice\"", "\"123\""),
               Credentials("\"alice\"", "\"kok123\"")},
   headers |-> {NoHeader,
                Header(<<Word("Bearer")>>),
                Bearer(Word("garbage")),
                Bearer(OtherKeyToken),
                Bearer(UnknownUserToken)},
   statuses |-> {Undefined},
   words |-> {},
   paths |-> {<<"/", "l", "o", "g", "i", "n">>},
   unknown |-> {<<"/", "n", "o", "w", "h", "e", "r", "e">>},
   postBodies |-> {NoBody},
   putBodies |-> {NoBody},
   patchBodies |-> {NoBody}]

InitGuard == InitAt(Earliest(GuardInputs.instants))
NextGuard == Requests(GuardInputs) \/ Tick(GuardInputs)
SpecGuard == InitGuard /\ [][NextGuard]_vars

(***************************************************************************)
(* SpecTwoUsers: Ashwanth and alice both log in and work on their          *)
(* collections, each asking for the ids of the other as well.              *)
(***************************************************************************)
TwoUsersInputs ==
  [instants |-> {1999},
   draws |-> {0, 1},
   logins |-> {Credentials("\"Ashwanth\"", "\"kok123\""), Credentials("\"alice\"", "\"123\"")},
   headers |-> {NoHeader},
   statuses |-> {Undefined},
   words |-> {},
   paths |-> {<<"/", "m", "o", "v", "i", "e", "s">>},
   unknown |-> {<<"/", "n", "o", "w", "h", "e", "r", "e">>},
   postBodies |-> {MovieBody(Inception, English, Undefined)},
   putBodies |-> {MovieBody(Inception, English, "true")},
   patchBodies |-> {MovieBody(Undefined, Undefined, "true")}]

InitTwoUsers == InitAt(Earliest(TwoUsersInputs.instants))
NextTwoUsers == Requests(TwoUsersInputs)
SpecTwoUsers == InitTwoUsers /\ [][NextTwoUsers]_vars

(***************************************************************************)
(* Properties.                                                             *)
(***************************************************************************)
ProtectedRoutes ==
  {"GET /movies", "POST /movies", "GET /movies/:id", "PUT /movies/:id",
   "PATCH /movies/:id", "DELETE /movies/:id"}

TwentyFourHours == 24 * 60 * 60 * 1000
\* the whole seconds of an instant given in milliseconds
WholeSeconds(ms) == ms \div 1000

\* the id of the user of the table with this username
UserIdOf(username) ==
  users[CHOOSE k \in 1..Len(users) : users[k].username = username].id

\* the last request was sent to a protected route with the token of login i
Presents(i) ==
  /\ req.route \in ProtectedRoutes
  /\ req.header = Bearer(i.token)
  /\ i.at <= req.time

\* the guard let the last request through as the user of login i
AcceptedAs(i) == req.user = UserIdOf(i.token.username) /\ res.status \notin {401, 403}
\* the guard answered the last request itself
RejectedWith(status) == res.status = status /\ res.kind = "message" /\ req.user = 0

\* C1 as stated: the token of every login is accepted as the user who logged
\* in at every instant less than 24 hours after the login, whatever happened
\* in between, and rejected with 403 at every instant from 24 hours on.
C1_AcceptedFor24Hours ==
  \A i \in issued :
    Presents(i) =>
      /\ req.time < i.at + TwentyFourHours => AcceptedAs(i)
      /\ req.time >= i.at + TwentyFourHours => RejectedWith(403)

\* C1 amended: the token of every login is accepted as the user who logged
\* in at every instant whose whole second is less than the whole second of
\* the login plus 86400, so at every instant up to 24 hours less one second
\* after the login, and is rejected with 403 at every other instant, so at
\* every instant from 24 hours after the login on.
C1_AcceptedUntilExpirySecond ==
  \A i \in issued :
    Presents(i) =>
      /\ WholeSeconds(req.time) < WholeSeconds(i.at) + 86400 => AcceptedAs(i)
      /\ WholeSeconds(req.time) >= WholeSeconds(i.at) + 86400 => RejectedWith(403)
      /\ req.time <= i.at + TwentyFourHours - 1000 => AcceptedAs(i)
      /\ req.time >= i.at + TwentyFourHours => RejectedWith(403)

\* a token is accepted after a later login, late in its 24 hours
C1_Witness ==
  \E i, j \in issued :
    /\ j.at > i.at
    /\ Presents(i)
    /\ req.time >= j.at
    /\ req.time > i.at + TwentyFourHours - 2000
    /\ AcceptedAs(i)

\* the token the last request carries: the second word of its header
Carried == IF req.header.present /\ Len(req.header.parts) >= 2
             THEN req.header.parts[2] ELSE UndefinedWord
CarriesMalformed == Carried.kind = "text" /\ Carried.text # ""
CarriesOtherKey == Carried.kind = "jwt" /\ Carried.key # SECRET_KEY
CarriesExpired ==
  /\ Carried.kind = "jwt"
  /\ Carried.key = SECRET_KEY
  /\ WholeSeconds(req.time) >= Carried.exp

\* C2: on every protected route a request without an Authorization header
\* is answered 401, and one whose token is malformed, signed with another
\* key or expired is answered 403; in each case by the guard, the handler
\* not being run.
C2_GuardRejects ==
  req.route \in ProtectedRoutes =>
    /\ ~req.header.present => RejectedWith(401)
    /\ CarriesMalformed => RejectedWith(403)
    /\ CarriesOtherKey => RejectedWith(403)
    /\ CarriesExpired => RejectedWith(403)

\* an expired token is turned away from PUT /movies/:id
C2_Witness ==
  /\ req.route = "PUT /movies/:id"
  /\ CarriesExpired
  /\ RejectedWith(403)

(***************************************************************************)
(* Properties of the collections.  A step of a request ends in the state   *)
(* holding that request and its response, so req' and res' are the request *)
(* the step handled and its answer, users the table before and users' the  *)
(* table after.                                                            *)
(***************************************************************************)
\* the token request r carries, and the id of the user it was issued to
CarriedBy(r) == IF r.header.present /\ Len(r.header.parts) >= 2
                  THEN r.header.parts[2] ELSE UndefinedWord
Caller(r) == CarriedBy(r).id

\* r reached the handler of route
Handled(r, route) == r.route = route /\ r.user # 0

\* the collection of the user with this id in table us
MoviesIn(us, id) == us[CHOOSE k \in 1..Len(us) : us[k].id = id].movies
Range(seq) == {seq[j] : j \in 1..Len(seq)}
IdsOf(movies) == {movies[j].id : j \in 1..Len(movies)}
\* the number a route parameter stands for is the id of one of the movies
HasId(movies, param) ==
  /\ \A j \in 1..Len(param) : param[j] \in DigitChars
  /\ \E m \in Range(movies) : ToChars(m.id) = param

\* C3: a request made with the token of one user leaves the collection of
\* every other user as it was; every movie GET /movies and GET /movies/:id
\* return is one of the caller's own collection, whatever id is asked for;
\* and a collection grows only by a POST /movies of its own user.
C3_Isolation ==
  [][/\ Len(users') = Len(users)
     /\ \A k \in 1..Len(users) :
          /\ users'[k].id = users[k].id
          /\ users[k].id # Caller(req') => users'[k].movies = users[k].movies
          /\ Len(users'[k].movies) > Len(users[k].movies) =>
               (req'.route = "POST /movies" /\ Caller(req') = users[k].id)
     /\ (req'.route \in {"GET /movies", "GET /movies/:id"} /\ res'.status = 200) =>
          Range(res'.movies) \subseteq Range(MoviesIn(users, Caller(req')))
    ]_vars

\* alice asks for the id of a movie of Ashwanth, has a movie herself, and
\* is told there is no such movie
C3_Witness ==
  /\ req.route = "GET /movies/:id"
  /\ req.user = 2
  /\ Caller(req) = 2
  /\ HasId(MoviesIn(users, 1), req.id)
  /\ MoviesIn(users, 2) # <<>>
  /\ res.status = 404

\* C4: the ids of the movies of a collection are pairwise distinct.
C4_UniqueIds ==
  \A k \in 1..Len(users) :
    \A i, j \in 1..Len(users[k].movies) :
      i # j => users[k].movies[i].id # users[k].movies[j].id

\* C5: DELETE /movies/:id of an id the caller's collection does not hold is
\* answered 404 and changes nothing; of an id it holds, 204, and no movie of
\* the collection has the id afterwards.  GET /movies/:id of an id the
\* collection does not hold is answered 404, and an id comes into a
\* collection only as the id of the record a POST /movies of its user
\* creates.
C5_DeleteThenNotFound ==
  [][LET before == MoviesIn(users, req'.user)
         after == MoviesIn(users', req'.user)
     IN  /\ Handled(req', "DELETE /movies/:id") =>
              /\ HasId(before, req'.id) => (res'.status = 204 /\ ~HasId(after, req'.id))
              /\ ~HasId(before, req'.id) => (res'.status = 404 /\ after = before)
         /\ (Handled(req', "GET /movies/:id") /\ ~HasId(before, req'.id)) =>
              res'.status = 404
         /\ \A k \in 1..Len(users) :
              \A n \in IdsOf(users'[k].movies) \ IdsOf(users[k].movies) :
                /\ Handled(req', "POST /movies")
                /\ req'.user = users[k].id
                /\ res'.status = 201
                /\ res'.movies[1].id = n
    ]_vars

\* a DELETE took the movies with its id out of a collection and left another
C5_Witness ==
  /\ Handled(req, "DELETE /movies/:id")
  /\ res.status = 204
  /\ MoviesIn(users, req.user) # <<>>
  /\ ~HasId(MoviesIn(users, req.user), req.id)

\* the body of r has the field
Given(r, field) == Field(r.body, field) # Undefined
\* the field of the body of r is absent or the empty string
AbsentOrEmpty(r, field) == Field(r.body, field) \in {Undefined, "\"\""}
\* the field of the body of r is a string that is not empty
NonEmptyString(r, field) ==
  Field(r.body, field) \notin {Undefined, "null", "true", "false", "0", "\"\""}
Omits(r) == ~Given(r, "movietitle") \/ ~Given(r, "language") \/ ~Given(r, "watched")

\* the place of the first movie with the id a route parameter stands for
FirstWithId(movies, param) ==
  CHOOSE i \in 1..Len(movies) :
    /\ ToChars(movies[i].id) = param
    /\ \A j \in 1..(i - 1) : ToChars(movies[j].id) # param

\* C6 as stated: a PUT /movies/:id whose body omits movietitle, language or
\* watched is answered 400 for any id, and changes nothing.
C6_PutIncomplete400 ==
  [][(Handled(req', "PUT /movies/:id") /\ Omits(req')) =>
       (res'.status = 400 /\ users' = users)
    ]_vars

\* C6 amended: a PUT /movies/:id whose body omits movietitle, language or
\* watched is answered 400 when the caller's collection holds the id and 404
\* when it does not, and changes nothing either way.
C6_PutIncomplete ==
  [][(Handled(req', "PUT /movies/:id") /\ Omits(req')) =>
       /\ HasId(MoviesIn(users, req'.user), req'.id) => res'.status = 400
       /\ ~HasId(MoviesIn(users, req'.user), req'.id) => res'.status = 404
       /\ users' = users
    ]_vars

\* a PUT with movietitle and language but no watched is answered 400
C6_Witness ==
  /\ Handled(req, "PUT /movies/:id")
  /\ Given(req, "movietitle")
  /\ Given(req, "language")
  /\ ~Given(req, "watched")
  /\ res.status = 400

\* C7: a PATCH /movies/:id of an id the caller's collection holds is
\* answered 200 with the movie; of the first movie with the id, each of
\* movietitle and language the body has takes the body's value, watched, if
\* the body has it, takes the body's value as a boolean, and each field the
\* body does not have stays; the id, every other movie and the order stay;
\* with an empty body nothing changes.
C7_PatchChangesGivenFields ==
  [][(Handled(req', "PATCH /movies/:id") /\ HasId(MoviesIn(users, req'.user), req'.id)) =>
       LET before == MoviesIn(users, req'.user)
           after == MoviesIn(users', req'.user)
           i == FirstWithId(before, req'.id)
       IN  /\ res'.status = 200
           /\ Len(after) = Len(before)
           /\ res'.movies = <<after[i]>>
           /\ \A j \in 1..Len(before) : j # i => after[j] = before[j]
           /\ after[i].id = before[i].id
           /\ after[i].movietitle =
                IF Given(req', "movietitle") THEN req'.body.movietitle ELSE before[i].movietitle
           /\ after[i].language =
                IF Given(req', "language") THEN req'.body.language ELSE before[i].language
           /\ after[i].watched =
                IF ~Given(req', "watched") THEN before[i].watched
                ELSE IF req'.body.watched \in {"false", "null", "0", "\"\""} THEN "false"
                ELSE "true"
           /\ (~Given(req', "movietitle") /\ ~Given(req', "language") /\ ~Given(req', "watched"))
                => users' = users
    ]_vars

\* a PATCH with watched alone set the second of two movies watched and left
\* the first unwatched
C7_Witness ==
  /\ Handled(req, "PATCH /movies/:id")
  /\ res.status = 200
  /\ Given(req, "watched") /\ ~Given(req, "movietitle") /\ ~Given(req, "language")
  /\ Len(MoviesIn(users, req.user)) = 2
  /\ MoviesIn(users, req.user)[1].watched = "false"
  /\ MoviesIn(users, req.user)[2].watched = "true"
  /\ res.movies = <<MoviesIn(users, req.user)[2]>>

\* the movies of a sequence whose watched is w, in their order
RECURSIVE Keep(_, _)
Keep(movies, w) ==
  IF movies = <<>> THEN <<>>
  ELSE IF Head(movies).watched = w THEN <<Head(movies)>> \o Keep(Tail(movies), w)
  ELSE Keep(Tail(movies), w)

\* C8: GET /movies is answered 200 with the whole collection in its order
\* when status is absent or any other value, with its movies of watched true
\* in their order when status is watched, and with its movies of watched
\* false in their order when status is unwatched; the table is not changed.
C8_ListFilters ==
  [][Handled(req', "GET /movies") =>
       LET before == MoviesIn(users, req'.user)
       IN  /\ users' = users
           /\ res'.status = 200
           /\ res'.movies = IF req'.status = "watched" THEN Keep(before, "true")
                            ELSE IF req'.status = "unwatched" THEN Keep(before, "false")
                            ELSE before
    ]_vars

\* status=unwatched returned the second movie alone of a collection whose
\* first movie is watched
C8_Witness ==
  /\ Handled(req, "GET /movies")
  /\ req.status = "unwatched"
  /\ Len(MoviesIn(users, req.user)) = 2
  /\ MoviesIn(users, req.user)[1].watched = "true"
  /\ res.movies = <<MoviesIn(users, req.user)[2]>>

\* C9: a POST /movies with a non-empty movietitle and language is answered
\* 201 with a record of that movietitle and language, whose watched is false
\* when the body has no watched and whose id is Date.now() plus a number in
\* 0..999; the collection afterwards is the collection before with the
\* record appended.
C9_CreateAppends ==
  [][(Handled(req', "POST /movies") /\ NonEmptyString(req', "movietitle")
        /\ NonEmptyString(req', "language")) =>
       /\ res'.status = 201
       /\ Len(res'.movies) = 1
       /\ res'.movies[1].movietitle = req'.body.movietitle
       /\ res'.movies[1].language = req'.body.language
       /\ ~Given(req', "watched") => res'.movies[1].watched = "false"
       /\ res'.movies[1].id - req'.time \in 0..999
       /\ MoviesIn(users', req'.user) = Append(MoviesIn(users, req'.user), res'.movies[1])
    ]_vars

\* a POST without watched added an unwatched movie after a watched one
C9_Witness ==
  /\ Handled(req, "POST /movies")
  /\ res.status = 201
  /\ ~Given(req, "watched")
  /\ Len(MoviesIn(users, req.user)) = 2
  /\ MoviesIn(users, req.user)[1].watched = "true"
  /\ MoviesIn(users, req.user)[2] = res.movies[1]
  /\ res.movies[1].watched = "false"

\* C10: a POST /movies whose movietitle or language is absent or empty is
\* answered 400 and changes nothing.
C10_CreateRejects ==
  [][(Handled(req', "POST /movies")
        /\ (AbsentOrEmpty(req', "movietitle") \/ AbsentOrEmpty(req', "language"))) =>
       (res'.status = 400 /\ users' = users)
    ]_vars

\* a POST with an empty movietitle was answered 400, the collection holding
\* a movie
C10_Witness ==
  /\ Handled(req, "POST /movies")
  /\ req.body.present
  /\ req.body.movietitle = "\"\""
  /\ res.status = 400
  /\ MoviesIn(users, req.user) # <<>>

(***************************************************************************)
(* C11  What is stored.                                                    *)
(***************************************************************************)
Stored == UNION {Range(users[k].movies) : k \in 1..Len(users)}
Booleans == {"true", "false"}
WatchedGiven == {r.watched : r \in WatchlistInputs.postBodies \cup WatchlistInputs.putBodies
                                     \cup WatchlistInputs.patchBodies}

\* C11: in every reachable state the watched of every stored movie is a
\* boolean, whatever watched the bodies of POST, PUT and PATCH gave or omitted.
C11_WatchedIsBoolean == \A m \in Stored : m.watched \in Booleans

\* a null, a string and a number have each been given as watched and accepted,
\* and an omission on creation
C11_Witness ==
  /\ {Undefined, "null", "\"no\"", "0"} \subseteq WatchedGiven
  /\ req.route \in {"POST /movies", "PUT /movies/:id", "PATCH /movies/:id"}
  /\ res.status \in {200, 201}
  /\ Field(req.body, "watched") \in {"null", "\"no\"", "0"}
  /\ res.movies[1] \in Stored

(***************************************************************************)
(* C12  The order of the guard's checks.                                   *)
(***************************************************************************)
CarriesNone == FalsyWord(Carried)
CarriesInvalid == CarriesMalformed \/ CarriesOtherKey \/ CarriesExpired
CarriesUnknownUser == Carried.kind = "jwt" /\ \A k \in 1..Len(users) : users[k].id # Carried.id

\* C12: on a protected route a token that is correctly signed and unexpired
\* but whose id is the id of no user is answered 401 'User not found' by the
\* guard, the handler not being run; and the checks come in the order missing
\* token (401), then signature and expiry (403), then the lookup of the user
\* (401), so that an expired or wrongly signed token of an unknown user is
\* answered 403.
C12_UnknownUserRejected ==
  req.route \in ProtectedRoutes =>
    IF CarriesNone THEN RejectedWith(401) /\ res.message = "Missing token"
    ELSE IF CarriesInvalid THEN RejectedWith(403)
    ELSE IF CarriesUnknownUser THEN RejectedWith(401) /\ res.message = "User not found"
    ELSE req.user = Carried.id

\* the token of the unknown user is turned away from DELETE /movies/:id while
\* it is unexpired
C12_Witness ==
  /\ req.route = "DELETE /movies/:id"
  /\ Carried = UnknownUserToken
  /\ ~CarriesInvalid
  /\ RejectedWith(401)
  /\ res.message = "User not found"

(***************************************************************************)
(* C13  Failures change nothing.                                           *)
(***************************************************************************)
FailureStatuses == {400, 401, 403, 404}

\* C13: a request answered 400, 401, 403 or 404, on whatever route, leaves
\* the table of users and every collection, its movies and their order, as
\* they were.
C13_FailureLeavesStore ==
  [][res'.status \in FailureStatuses => users' = users]_vars

\* a PUT of an incomplete body for a movie of a collection of two is answered 400
C13_Witness ==
  /\ Handled(req, "PUT /movies/:id")
  /\ res.status = 400
  /\ Len(MoviesIn(users, req.user)) = 2
  /\ HasId(MoviesIn(users, req.user), req.id)

(***************************************************************************)
(* C15  The shape of failures.                                             *)
(***************************************************************************)
SuccessStatuses == {200, 201, 204}
Answered == req.route # "none"

\* C15: every request, whatever its route, headers and body, a body that is
\* absent or not JSON included, is answered, and every answer that is not a
\* success has status 400, 401, 403 or 404 and a JSON object with a message
\* as its body.
C15_FailuresAreMessages ==
  Answered =>
    \/ res.status \in SuccessStatuses
    \/ /\ res.status \in FailureStatuses
       /\ res.kind = "message"
       /\ res.message # ""

(***************************************************************************)
(* C16  Reading back what was created.                                     *)
(***************************************************************************)
\* the step is a GET /movies/:id of the user of the POST /movies answered 201
\* just before, for the id of the movie that POST returned
ReadsBackCreated ==
  /\ Handled(req, "POST /movies")
  /\ res.status = 201
  /\ Handled(req', "GET /movies/:id")
  /\ req'.user = req.user
  /\ req'.id = ToChars(res.movies[1].id)

\* C16: after a POST /movies answered 201 with movie M, a GET /movies/:id of
\* the same user with the id of M, no request having changed the collection
\* in between, is answered 200 with exactly M.
C16_CreateThenGet ==
  [][ReadsBackCreated => (res'.status = 200 /\ res'.movies = res.movies)]_vars

(***************************************************************************)
(* C17  What a delete removes.                                             *)
(***************************************************************************)
\* seq without its element at position i
Without(seq, i) == [j \in 1..(Len(seq) - 1) |-> IF j < i THEN seq[j] ELSE seq[j + 1]]

\* C17: a DELETE /movies/:id answered 204 removes exactly one movie: the
\* collection is one shorter and is the former collection without one movie
\* of the given id, the others in their former order.
C17_DeleteRemovesOne ==
  [][(Handled(req', "DELETE /movies/:id") /\ res'.status = 204) =>
       LET before == MoviesIn(users, req'.user)
           after == MoviesIn(users', req'.user)
       IN  /\ Len(after) = Len(before) - 1
           /\ \E i \in 1..Len(before) :
                /\ ToChars(before[i].id) = req'.id
                /\ after = Without(before, i)]_vars

(***************************************************************************)
(* C18  The title and the language of what is stored.                      *)
(***************************************************************************)
StoredIn(us) == UNION {Range(us[k].movies) : k \in 1..Len(us)}
\* some stored movie of table us has the empty string as this field
SomeEmpty(us, field) == \E m \in StoredIn(us) : m[field] = Empty
\* the request was a PUT or PATCH answered 200 whose body gave the empty
\* string as this field
Emptied(r, s, field) ==
  /\ r.route \in {"PUT /movies/:id", "PATCH /movies/:id"}
  /\ s.status = 200
  /\ Field(r.body, field) = Empty

\* C18 as stated: in every reachable state every stored movie has a
\* movietitle and a language that are present and not empty.
C18_TitleAndLanguageNonEmpty ==
  \A m \in Stored :
    /\ m.movietitle \notin {Undefined, Empty}
    /\ m.language \notin {Undefined, Empty}

\* C18 amended: every stored movie has a movietitle and a language that are
\* present; the movie a POST /movies creates has both non-empty; and a
\* collection comes to hold an empty movietitle or language only by a PUT or
\* PATCH answered 200 whose body gave the empty string for that field.
C18_PresentAndEmptiedByUpdateOnly ==
  [][/\ \A m \in StoredIn(users') : m.movietitle # Undefined /\ m.language # Undefined
     /\ (Handled(req', "POST /movies") /\ res'.status = 201) =>
          /\ res'.movies[1] \in StoredIn(users')
          /\ ~Falsy(res'.movies[1].movietitle)
          /\ ~Falsy(res'.movies[1].language)
     /\ \A field \in {"movietitle", "language"} :
          (SomeEmpty(users', field) /\ ~SomeEmpty(users, field)) => Emptied(req', res', field)
    ]_vars

\* a PUT with an empty movietitle and language was answered 200 and the movie
\* is stored with both empty
C18_Witness ==
  /\ Handled(req, "PUT /movies/:id")
  /\ res.status = 200
  /\ Field(req.body, "movietitle") = Empty
  /\ res.movies[1] \in Stored
  /\ res.movies[1].movietitle = Empty
  /\ res.movies[1].language = Empty

(***************************************************************************)
(* C19  What an update leaves alone.                                       *)
(***************************************************************************)
IdSequence(movies) == [j \in 1..Len(movies) |-> movies[j].id]
Updates(r) == Handled(r, "PUT /movies/:id") \/ Handled(r, "PATCH /movies/:id")

\* C19: a PUT or PATCH of /movies/:id leaves the ids of the collection, their
\* number and their order as they were, whether or not its body has an id;
\* when it is answered 200 every movie but the first with the given id is as
\* it was, and that one differs in movietitle, language and watched at most.
C19_UpdateKeepsIds ==
  [][Updates(req') =>
       LET before == MoviesIn(users, req'.user)
           after == MoviesIn(users', req'.user)
       IN  /\ IdSequence(after) = IdSequence(before)
           /\ res'.status = 200 =>
                \A j \in 1..Len(before) :
                  j # FirstWithId(before, req'.id) => after[j] = before[j]
    ]_vars

\* a PUT whose body has an id was answered 200 for the first of two movies of
\* different ids, whose watched it left different from the second's
C19_Witness ==
  /\ Handled(req, "PUT /movies/:id")
  /\ res.status = 200
  /\ Given(req, "id")
  /\ Len(MoviesIn(users, req.user)) = 2
  /\ MoviesIn(users, req.user)[1].id # MoviesIn(users, req.user)[2].id
  /\ ToChars(MoviesIn(users, req.user)[1].id) = req.id
  /\ MoviesIn(users, req.user)[1].watched # MoviesIn(users, req.user)[2].watched

====
